---------------------------- MODULE Spec2Model ----------------------------
(***************************************************************************)
(* Virtual Garage API (src/app.js): an express application over one        *)
(* Sequelize model, Car, stored in the SQLite table "cars".                *)
(*                                                                         *)
(* The state is the table, the startup routine's position, the requests    *)
(* suspended at an await between two storage calls, and the last response  *)
(* written.  Every handler is cut at its awaits: the code before the first *)
(* storage call runs with that call, and the code after the last storage   *)
(* call (the res.json) runs with it.                                       *)
(*                                                                         *)
(* Values.  A JSON field is a sequence: <<>> when the field is undefined   *)
(* (absent from the body) or NULL in the table, <<v>> when it has value v. *)
(* Text that the code parses (vin, last_service_date) is a sequence of     *)
(* one-character strings; other text is a string.  A car_id (UUID) is a    *)
(* positive number; 0 stands for "no id".                                  *)
(***************************************************************************)
EXTENDS Integers, Sequences, FiniteSets, Bags, TLC

VARIABLES
    cars,       \* the table: car_id -> row
    issued,     \* how many UUIDs have been generated so far
    tz,         \* the process's UTC offset in hours (environment)
    initPc,     \* position of the startup routine
    seeded,     \* rows inserted by the startup routine
    startedEmpty, \* the table was empty when the process started
    pending,    \* bag of the requests suspended between findByPk and
                \* update/destroy
    served,     \* requests received
    answered,   \* responses written
    lastResp,   \* the last response written
    deleted,    \* ids for which a DELETE answered 204
    created     \* id -> payload of the POST that created it, until a PUT
                \* or DELETE writes that id

vars == <<cars, issued, tz, initPc, seeded, startedEmpty, pending, served,
          answered, lastResp, deleted, created>>

-----------------------------------------------------------------------------
(* Bounds of the model *)

MaxIds == 2         \* UUIDs that can be generated / named in a path
MaxRequests == 3    \* requests received in one run

(* Program constants *)

MinYear == 1900
VinLen == 17
CurrentYear == 2026
MaxYear == CurrentYear + 1

Ids == 1..MaxIds
TZOffsets == {-5, 3}

Undef == <<>>
Some(v) == <<v>>
Val(f) == f[1]

-----------------------------------------------------------------------------
(* Characters *)

DigitSeq == <<"0", "1", "2", "3", "4", "5", "6", "7", "8", "9">>
Digits == {DigitSeq[i] : i \in 1..10}
UpperLetters == {"A", "B", "C", "D", "E", "F", "G", "H", "I", "J", "K", "L", "M",
                 "N", "O", "P", "Q", "R", "S", "T", "U", "V", "W", "X", "Y", "Z"}
LowerLetters == {"a", "b", "c", "d", "e", "f", "g", "h", "i", "j", "k", "l", "m",
                 "n", "o", "p", "q", "r", "s", "t", "u", "v", "w", "x", "y", "z"}

AlnumChars == Digits \cup UpperLetters \cup LowerLetters

\* validator.js isAlphanumeric (en-US): /^[0-9A-Z]+$/i
IsAlphanumeric(s) == Len(s) > 0 /\ \A i \in 1..Len(s) : s[i] \in AlnumChars

\* isLength({ min: 17, max: 17 })
IsLength17(s) == Len(s) = VinLen

\* The model's vin pattern /^[A-HJ-NPR-Z0-9]{17}$/i
VinPatternChars == AlnumChars \ {"I", "O", "Q", "i", "o", "q"}

VinPattern(s) ==
    /\ Len(s) = VinLen
    /\ \A i \in 1..Len(s) : s[i] \in VinPatternChars

-----------------------------------------------------------------------------
(* Dates.  A date string is a sequence of characters; the inputs are either *)
(* of the calendar form YYYY-MM-DD or not ISO 8601 at all.                  *)

DigitValue == [c \in Digits |-> (CHOOSE i \in 1..10 : DigitSeq[i] = c) - 1]
DigitVal(c) == DigitValue[c]

Num2(s, i) == 10 * DigitVal(s[i]) + DigitVal(s[i + 1])
Num4(s, i) == 100 * Num2(s, i) + Num2(s, i + 2)

\* validator.js isISO8601 (not strict), on the calendar form
IsISO8601(s) ==
    /\ Len(s) = 10
    /\ \A i \in {1, 2, 3, 4, 6, 7, 9, 10} : s[i] \in Digits
    /\ s[5] = "-" /\ s[8] = "-"
    /\ Num2(s, 6) \in 1..12
    /\ Num2(s, 9) \in 1..31

IsLeap(y) == (y % 4 = 0 /\ y % 100 # 0) \/ y % 400 = 0

DaysInMonth(y, m) ==
    IF m = 2 THEN (IF IsLeap(y) THEN 29 ELSE 28)
    ELSE IF m \in {4, 6, 9, 11} THEN 30 ELSE 31

PrevDay(d) ==
    IF d[3] > 1 THEN <<d[1], d[2], d[3] - 1>>
    ELSE IF d[2] > 1 THEN <<d[1], d[2] - 1, DaysInMonth(d[1], d[2] - 1)>>
    ELSE <<d[1] - 1, 12, 31>>

ParseDay(s) == <<Num4(s, 1), Num2(s, 6), Num2(s, 9)>>

\* toDate(): Date.parse of a date-only ISO string is midnight UTC of that day
ToDate(s) == [kind |-> "Date", day |-> ParseDay(s), hour |-> 0]

\* a date given to the model as text
DateText(s) == [kind |-> "string", text |-> s]

\* The calendar day of an instant in the process's time zone
LocalDay(t, offset) == IF t.hour + offset < 0 THEN PrevDay(t.day) ELSE t.day

Fmt2(n) == <<DigitSeq[(n \div 10) + 1], DigitSeq[(n % 10) + 1]>>
Fmt4(n) == Fmt2(n \div 100) \o Fmt2(n % 100)

\* moment(value).format('YYYY-MM-DD')
FormatDay(d) == Fmt4(d[1]) \o <<"-">> \o Fmt2(d[2]) \o <<"-">> \o Fmt2(d[3])

\* DataTypes.DATEONLY, moment(value).format('YYYY-MM-DD'): a Date is read in
\* the process's time zone, a string is parsed as a local calendar day
DateOnly(v, offset) ==
    IF v.kind = "Date" THEN FormatDay(LocalDay(v, offset))
    ELSE FormatDay(ParseDay(v.text))


-----------------------------------------------------------------------------
(* Request bodies *)

Fields == {"user_id", "make", "model", "year", "vin", "mileage",
           "last_service_date"}

VinGood == <<"1", "H", "G", "C", "M", "8", "2", "6", "3", "3", "A", "0", "0",
             "4", "3", "5", "2">>
VinWithO == <<"1", "H", "G", "C", "M", "8", "2", "6", "3", "3", "A", "0", "0",
              "4", "3", "5", "O">>
VinDash == <<"1", "H", "G", "C", "M", "8", "2", "6", "3", "3", "A", "0", "0",
             "4", "3", "5", "-">>
\* the vin of the startup record, "JTDKL4830399234"
VinSeed == <<"J", "T", "D", "K", "L", "4", "8", "3", "0", "3", "9", "9", "2",
             "3", "4">>

\* "2023-11-15", "2024-03-01", "15/11/2023"
DateNov == <<"2", "0", "2", "3", "-", "1", "1", "-", "1", "5">>
DateMar == <<"2", "0", "2", "4", "-", "0", "3", "-", "0", "1">>
DateSlashes == <<"1", "5", "/", "1", "1", "/", "2", "0", "2", "3">>

EmptyBody ==
    [car_id |-> Undef, user_id |-> Undef, make |-> Undef, model |-> Undef,
     year |-> Undef, vin |-> Undef, mileage |-> Undef,
     last_service_date |-> Undef]

FullBody ==
    [EmptyBody EXCEPT !.user_id = Some("user123"), !.make = Some("Toyota"),
                      !.model = Some("Camry"), !.year = Some(MinYear),
                      !.vin = Some(VinGood), !.mileage = Some(50000),
                      !.last_service_date = Some(DateNov)]

\* the values the startup routine creates its record from
SeedValues ==
    [FullBody EXCEPT !.year = Some(2020), !.vin = Some(VinSeed),
                     !.last_service_date = Some(DateText(DateNov))]

MinimalBody ==
    [EmptyBody EXCEPT !.user_id = Some("user123"), !.make = Some("Toyota"),
                      !.model = Some("Camry"), !.year = Some(MaxYear)]

PostBodies ==
    {FullBody, MinimalBody,
     [MinimalBody EXCEPT !.vin = Some(VinWithO)],
     [MinimalBody EXCEPT !.make = Undef],
     [MinimalBody EXCEPT !.user_id = Some("")],
     [MinimalBody EXCEPT !.year = Some(MinYear - 1)],
     [MinimalBody EXCEPT !.year = Some(MaxYear + 1)],
     [MinimalBody EXCEPT !.year = Undef],
     [MinimalBody EXCEPT !.vin = Some(VinSeed)],
     [MinimalBody EXCEPT !.vin = Some(VinDash)],
     [MinimalBody EXCEPT !.mileage = Some(-1)],
     [MinimalBody EXCEPT !.last_service_date = Some(DateSlashes)]}

PutBodies ==
    {[EmptyBody EXCEPT !.make = Some("Honda"), !.car_id = Some(MaxIds)],
     [EmptyBody EXCEPT !.year = Some(MinYear)],
     [EmptyBody EXCEPT !.year = Some(MaxYear)],
     [EmptyBody EXCEPT !.last_service_date = Some(DateMar)],
     [EmptyBody EXCEPT !.vin = Some(VinWithO)],
     [EmptyBody EXCEPT !.make = Some("")],
     [EmptyBody EXCEPT !.year = Some(MinYear - 1)],
     [EmptyBody EXCEPT !.year = Some(MaxYear + 1)],
     [EmptyBody EXCEPT !.vin = Some(VinSeed)],
     [EmptyBody EXCEPT !.mileage = Some(-1)],
     [EmptyBody EXCEPT !.last_service_date = Some(DateSlashes)]}

-----------------------------------------------------------------------------
(* express-validator chains *)

\* notEmpty(): an undefined field is the empty string
NotEmpty(x) == x # Undef /\ Val(x) # ""

\* isInt({ min: 1900, max: new Date().getFullYear() + 1 })
YearIsInt(x) == x # Undef /\ Val(x) >= MinYear /\ Val(x) <= MaxYear

\* (mutant) the vin chain without its isLength
VinIsValidAnyLength(x) == x # Undef /\ IsAlphanumeric(Val(x))

\* isAlphanumeric().isLength({ min: 17, max: 17 })
VinIsValid(x) == x # Undef /\ IsAlphanumeric(Val(x)) /\ IsLength17(Val(x))

\* isInt({ min: 0 })
MileageIsInt(x) == x # Undef /\ Val(x) >= 0

\* isISO8601()
DateIsISO(x) == x # Undef /\ IsISO8601(Val(x))

\* optional(): the chain is skipped when the field is undefined
Optional(x, ok) == x = Undef \/ ok

PostFieldOK(f, x) ==
    CASE f \in {"user_id", "make", "model"} -> NotEmpty(x)
      [] f = "year" -> YearIsInt(x)
      [] f = "vin" -> Optional(x, VinIsValid(x))
      [] f = "mileage" -> Optional(x, MileageIsInt(x))
      [] f = "last_service_date" -> Optional(x, DateIsISO(x))

PutFieldOK(f, x) ==
    CASE f \in {"user_id", "make", "model"} -> Optional(x, NotEmpty(x))
      [] f = "year" -> Optional(x, YearIsInt(x))
      [] f = "vin" -> Optional(x, VinIsValid(x))
      [] f = "mileage" -> Optional(x, MileageIsInt(x))
      [] f = "last_service_date" -> Optional(x, DateIsISO(x))

\* validationResult(req): the fields whose chain failed
PostErrors(b) == {f \in Fields : ~PostFieldOK(f, b[f])}
PutErrors(b) == {f \in Fields : ~PutFieldOK(f, b[f])}

\* the same, for the bodies of the model
PostValidation == [b \in PostBodies |-> PostErrors(b)]
PutValidation == [b \in PutBodies |-> PutErrors(b)]

\* the toDate() sanitizer rewrites req.body.last_service_date
BodyToDate(b) ==
    [b EXCEPT !.last_service_date =
        IF b.last_service_date = Undef THEN Undef
        ELSE Some(ToDate(Val(b.last_service_date)))]

-----------------------------------------------------------------------------
(* The Car model *)

\* (mutant) the model's year range with max: new Date().getFullYear()
ModelYearOKThisYear(y) == y >= MinYear /\ y <= CurrentYear

\* year: validate { isInt, min: 1900, max: new Date().getFullYear() + 1 }
ModelYearOK(y) == y >= MinYear /\ y <= MaxYear

\* sequelize's isDate: Date.parse(value) is a number
IsDate(s) == IsISO8601(s)

\* allowNull and validate of one attribute
ModelFieldOK(f, x) ==
    CASE f \in {"user_id", "make", "model"} -> x # Undef
      [] f = "year" -> x # Undef /\ ModelYearOK(Val(x))
      [] f = "vin" -> x = Undef \/ VinPattern(Val(x))
      [] f = "mileage" -> x = Undef \/ Val(x) >= 0
      [] f = "last_service_date" -> x = Undef \/ IsDate(Val(x))

\* the attributes of `values` that are not undefined
Supplied(values) == {f \in Fields : values[f] # Undef}

\* Model.set: the values as the instance holds them (DATEONLY sanitized)
Sanitized(values, offset) ==
    [f \in Fields |->
        IF f = "last_service_date" /\ values[f] # Undef
        THEN Some(DateOnly(Val(values[f]), offset))
        ELSE values[f]]

\* Car.build(values) with a generated primary key
BuildCar(id, values, offset) ==
    LET v == Sanitized(values, offset) IN
    [f \in Fields \cup {"car_id"} |-> IF f = "car_id" THEN id ELSE v[f]]

\* instance.update(values): undefined values are omitted, the rest are set
SetValues(inst, values, offset) ==
    LET v == Sanitized(values, offset) IN
    [f \in DOMAIN inst |-> IF f \in Fields /\ values[f] # Undef THEN v[f] ELSE inst[f]]

\* validation run by save(): on create every attribute, on update those set
CreateErrors(inst) == {f \in Fields : ~ModelFieldOK(f, inst[f])}
UpdateErrors(inst, values) == {f \in Supplied(values) : ~ModelFieldOK(f, inst[f])}

\* defaultValue: Sequelize.UUIDV4, a fresh identifier
UUIDV4(n) == n + 1

\* INSERT INTO cars
InsertRow(tbl, row) ==
    [i \in DOMAIN tbl \cup {row.car_id} |-> IF i = row.car_id THEN row ELSE tbl[i]]

\* (mutant) an upsert: the row is inserted when no row has the id
UpsertRow(tbl, id, inst, fields) ==
    [i \in DOMAIN tbl \cup {id} |->
        IF i = id THEN [f \in DOMAIN inst |->
                            IF f \in fields \/ i \notin DOMAIN tbl THEN inst[f]
                            ELSE tbl[i][f]]
        ELSE tbl[i]]

\* UPDATE cars SET <fields> WHERE car_id = id
UpdateRow(tbl, id, inst, fields) ==
    [i \in DOMAIN tbl |->
        IF i = id THEN [f \in DOMAIN tbl[i] |->
                            IF f \in fields THEN inst[f] ELSE tbl[i][f]]
        ELSE tbl[i]]

\* (mutant) the DELETE matches no row
DeleteNoRow(tbl, id) == tbl

\* DELETE FROM cars WHERE car_id = id
DeleteRow(tbl, id) == [i \in DOMAIN tbl \ {id} |-> tbl[i]]

\* Car.findByPk(id): <<row>> or <<>> (null)
FindByPk(tbl, id) == IF id \in DOMAIN tbl THEN Some(tbl[id]) ELSE Undef

\* Car.count()
Count(tbl) == Cardinality(DOMAIN tbl)


\* (mutant) save() of a new instance that validates after its INSERT
CreateCarThenValidate(tbl, id, values, offset) ==
    LET inst == BuildCar(id, values, offset) IN
    [threw |-> CreateErrors(inst) # {} \/ id \in DOMAIN tbl,
     tbl |-> InsertRow(tbl, inst), inst |-> inst]

\* save() of a new instance: validate, then INSERT (car_id is the primary key)
CreateCar(tbl, id, values, offset) ==
    LET inst == BuildCar(id, values, offset) IN
    IF CreateErrors(inst) # {} \/ id \in DOMAIN tbl
    THEN [threw |-> TRUE, tbl |-> tbl, inst |-> inst]
    ELSE [threw |-> FALSE, tbl |-> InsertRow(tbl, inst), inst |-> inst]

\* car.update(values): set, validate, then UPDATE; no rows matched is no error
UpdateCar(tbl, car, values, offset) ==
    LET inst == SetValues(car, values, offset) IN
    IF UpdateErrors(inst, values) # {}
    THEN [threw |-> TRUE, tbl |-> tbl, inst |-> inst]
    ELSE [threw |-> FALSE,
          tbl |-> UpdateRow(tbl, car.car_id, inst, Supplied(values)),
          inst |-> inst]

-----------------------------------------------------------------------------
(* Responses *)

\* op, id, req: the request answered (method, car_id parameter, JSON body);
\* shape: which JSON the response carries; body: the car or the list;
\* errors: the fields of { errors: [...] }; error: the detail of a 500
Response(op, id, req, status, shape, body, errors, error) ==
    [op |-> op, id |-> id, req |-> req, status |-> status, shape |-> shape,
     body |-> body, errors |-> errors, error |-> error]

NoResponse == Response("none", 0, <<>>, 0, "none", <<>>, {}, "none")

\* res.status(..).json(..) / .send(): the response is written
Send(r) == lastResp' = r /\ answered' = answered + 1

\* the startup routine has returned and sync() has ensured the table
Started == initPc \in {"done", "caught_engine", "caught_validation"}

\* a request arrives
Receive == Started /\ served < MaxRequests /\ served' = served + 1

\* the handler awaits: its locals are kept until the storage call returns
Suspend(q) == pending' = pending (+) SetToBag({q})
Resume(q) == pending' = pending (-) SetToBag({q})

\* a row is written or removed: the id is no longer as its POST left it
Touch(id) == created' = [i \in DOMAIN created \ {id} |-> created[i]]

-----------------------------------------------------------------------------
(* Initial state: the database file may hold a row from an earlier run *)

OldRow == BuildCar(1, BodyToDate(MinimalBody), 0)

Init ==
    /\ \E old \in BOOLEAN :
        /\ cars = IF old THEN InsertRow(<<>>, OldRow) ELSE <<>>
        /\ issued = IF old THEN 1 ELSE 0
        /\ startedEmpty = ~old
    /\ tz \in TZOffsets
    /\ initPc = "sync"
    /\ seeded = 0
    /\ pending = EmptyBag
    /\ served = 0
    /\ answered = 0
    /\ lastResp = NoResponse
    /\ deleted = {}
    /\ created = <<>>

-----------------------------------------------------------------------------
(* Startup routine *)

\* await sequelize.sync({ force: false })
StartupSync ==
    /\ initPc = "sync"
    /\ \E fault \in BOOLEAN : initPc' = IF fault THEN "caught_sync" ELSE "count"
    /\ UNCHANGED <<cars, issued, tz, seeded, startedEmpty, pending, served,
                   answered, lastResp, deleted, created>>

\* if (await Car.count() === 0)
StartupCount ==
    /\ initPc = "count"
    /\ \E fault \in BOOLEAN :
        initPc' = IF fault THEN "caught_engine"
                  ELSE IF Count(cars) = 0 THEN "seed" ELSE "done"
    /\ UNCHANGED <<cars, issued, tz, seeded, startedEmpty, pending, served,
                   answered, lastResp, deleted, created>>

\* await Car.create({ ...example record... })
StartupSeed ==
    /\ initPc = "seed"
    /\ issued < MaxIds
    /\ \E fault \in BOOLEAN :
        LET id == UUIDV4(issued)
            r == CreateCar(cars, id, SeedValues, tz) IN
        IF fault
        THEN /\ initPc' = "caught_engine"
             /\ UNCHANGED <<cars, issued, seeded>>
        ELSE IF r.threw
        THEN /\ initPc' = "caught_validation"
             /\ cars' = r.tbl
             /\ UNCHANGED <<issued, seeded>>
        ELSE /\ initPc' = "done"
             /\ issued' = id
             /\ cars' = r.tbl
             /\ seeded' = seeded + 1
    /\ UNCHANGED <<tz, startedEmpty, pending, served, answered, lastResp, deleted,
                   created>>

-----------------------------------------------------------------------------
(* Request handlers *)

\* GET /cars
ListCars ==
    /\ Receive
    /\ \E fault \in BOOLEAN :
        IF fault
        THEN Send(Response("LIST", 0, <<>>, 500, "message", <<>>, {}, "none"))
        ELSE Send(Response("LIST", 0, <<>>, 200, "list",
                           Some({cars[i] : i \in DOMAIN cars}), {}, "none"))
    /\ UNCHANGED <<cars, issued, tz, initPc, seeded, startedEmpty, pending,
                   deleted, created>>

\* GET /cars/:car_id
GetCar(id) ==
    /\ Receive
    /\ \E fault \in BOOLEAN :
        LET car == FindByPk(cars, id) IN
        IF fault
        THEN Send(Response("GET", id, <<>>, 500, "message", <<>>, {}, "none"))
        ELSE IF car # Undef
        THEN Send(Response("GET", id, <<>>, 200, "car", car, {}, "none"))
        ELSE Send(Response("GET", id, <<>>, 404, "message", <<>>, {}, "none"))
    /\ UNCHANGED <<cars, issued, tz, initPc, seeded, startedEmpty, pending,
                   deleted, created>>

\* POST /cars
PostCars(b) ==
    /\ Receive
    /\ issued < MaxIds
    /\ \E fault \in BOOLEAN :
        LET id == UUIDV4(issued)
            r == CreateCar(cars, id, BodyToDate(b), tz) IN
        IF PostValidation[b] # {}
        THEN /\ ~fault
             /\ Send(Response("POST", 0, Some(b), 400, "errors", <<>>,
                               PostValidation[b], "none"))
             /\ UNCHANGED <<cars, issued, created>>
        ELSE IF fault
        THEN /\ Send(Response("POST", 0, Some(b), 500, "message", <<>>, {}, "engine"))
             /\ UNCHANGED <<cars, issued, created>>
        ELSE IF r.threw
        THEN /\ Send(Response("POST", 0, Some(b), 500, "message", <<>>, {}, "validation"))
             /\ cars' = r.tbl
             /\ UNCHANGED <<issued, created>>
        ELSE /\ Send(Response("POST", id, Some(b), 201, "car", Some(r.inst), {}, "none"))
             /\ issued' = id
             /\ cars' = r.tbl
             /\ created' = [i \in DOMAIN created \cup {id} |->
                              IF i = id THEN b ELSE created[i]]
    /\ UNCHANGED <<tz, initPc, seeded, startedEmpty, pending, deleted>>

\* PUT /cars/:car_id, up to the await of findByPk
PutFind(id, b) ==
    /\ Receive
    /\ \E fault \in BOOLEAN :
        LET car == FindByPk(cars, id) IN
        IF PutValidation[b] # {}
        THEN /\ ~fault
             /\ Send(Response("PUT", id, Some(b), 400, "errors", <<>>,
                               PutValidation[b], "none"))
             /\ UNCHANGED pending
        ELSE IF fault
        THEN /\ Send(Response("PUT", id, Some(b), 500, "message", <<>>, {}, "engine"))
             /\ UNCHANGED pending
        ELSE IF car = Undef
        THEN /\ Send(Response("PUT", id, Some(b), 404, "message", <<>>, {}, "none"))
             /\ UNCHANGED pending
        ELSE /\ Suspend([op |-> "PUT", id |-> id, body |-> Some(b), car |-> car])
             /\ UNCHANGED <<lastResp, answered>>
    /\ UNCHANGED <<cars, issued, tz, initPc, seeded, startedEmpty, deleted, created>>

\* PUT /cars/:car_id, from the await of car.update to res.json(car)
PutUpdate(q) ==
    /\ q.op = "PUT"
    /\ \E fault \in BOOLEAN :
        LET id == q.id
            b == Val(q.body)
            r == UpdateCar(cars, Val(q.car), BodyToDate(b), tz) IN
        IF fault
        THEN /\ Send(Response("PUT", id, Some(b), 500, "message", <<>>, {}, "engine"))
             /\ UNCHANGED <<cars, created>>
        ELSE IF r.threw
        THEN /\ Send(Response("PUT", id, Some(b), 500, "message", <<>>, {}, "validation"))
             /\ cars' = r.tbl
             /\ UNCHANGED created
        ELSE /\ Send(Response("PUT", id, Some(b), 200, "car", Some(r.inst), {}, "none"))
             /\ cars' = r.tbl
             /\ Touch(id)
    /\ Resume(q)
    /\ UNCHANGED <<issued, tz, initPc, seeded, startedEmpty, served, deleted>>

\* DELETE /cars/:car_id, up to the await of findByPk
DeleteFind(id) ==
    /\ Receive
    /\ \E fault \in BOOLEAN :
        LET car == FindByPk(cars, id) IN
        IF fault
        THEN /\ Send(Response("DELETE", id, <<>>, 500, "message", <<>>, {}, "none"))
             /\ UNCHANGED pending
        ELSE IF car = Undef
        THEN /\ Send(Response("DELETE", id, <<>>, 404, "message", <<>>, {}, "none"))
             /\ UNCHANGED pending
        ELSE /\ Suspend([op |-> "DELETE", id |-> id, body |-> <<>>, car |-> car])
             /\ UNCHANGED <<lastResp, answered>>
    /\ UNCHANGED <<cars, issued, tz, initPc, seeded, startedEmpty, deleted, created>>

\* DELETE /cars/:car_id, from the await of car.destroy to res.status(204).send()
DeleteDestroy(q) ==
    /\ q.op = "DELETE"
    /\ \E fault \in BOOLEAN :
        LET id == q.id IN
        IF fault
        THEN /\ Send(Response("DELETE", id, <<>>, 500, "message", <<>>, {}, "none"))
             /\ UNCHANGED <<cars, deleted, created>>
        ELSE /\ Send(Response("DELETE", id, <<>>, 204, "empty", <<>>, {}, "none"))
             /\ cars' = DeleteRow(cars, Val(q.car).car_id)
             /\ deleted' = deleted \cup {id}
             /\ Touch(id)
    /\ Resume(q)
    /\ UNCHANGED <<issued, tz, initPc, seeded, startedEmpty, served>>

Next ==
    \/ StartupSync
    \/ StartupCount
    \/ StartupSeed
    \/ ListCars
    \/ \E id \in Ids : GetCar(id)
    \/ \E b \in PostBodies : PostCars(b)
    \/ \E id \in Ids, b \in PutBodies : PutFind(id, b)
    \/ \E q \in BagToSet(pending) : PutUpdate(q)
    \/ \E id \in Ids : DeleteFind(id)
    \/ \E q \in BagToSet(pending) : DeleteDestroy(q)

Spec == Init /\ [][Next]_vars


-----------------------------------------------------------------------------
(* The data model as the specification states it (section 3) *)

IsCalendarDate(s) ==
    /\ IsISO8601(s)
    /\ Num2(s, 9) <= DaysInMonth(Num4(s, 1), Num2(s, 6))

DataModelFieldOK(f, x, required) ==
    IF x = Undef THEN ~(required /\ f \in {"user_id", "make", "model", "year"})
    ELSE CASE f \in {"user_id", "make", "model"} -> Val(x) # ""
           [] f = "year" -> Val(x) \in 1900..(CurrentYear + 1)
           [] f = "vin" -> Len(Val(x)) = 17 /\ \A i \in 1..17 : Val(x)[i] \in AlnumChars
           [] f = "mileage" -> Val(x) >= 0
           [] f = "last_service_date" -> IsCalendarDate(Val(x))

\* a creation payload / an update body that the data model accepts
ValidPayload(b) == \A f \in Fields : DataModelFieldOK(f, b[f], TRUE)
ValidUpdate(b) == \A f \in Fields : DataModelFieldOK(f, b[f], FALSE)

\* the bodies of the model that the data model accepts
ValidPosts == {b \in PostBodies : ValidPayload(b)}
ValidPuts == {b \in PutBodies : ValidUpdate(b)}

\* this step answers a request that arrived in it / that was suspended
AnswersNew(op) == served' # served /\ answered' # answered /\ lastResp'.op = op
AnswersOld(op) == served' = served /\ answered' # answered /\ lastResp'.op = op

\* this step suspends request q / resumes request q and answers it
Suspends(q) == served' # served /\ answered' = answered /\ Suspend(q)
Resumes(q) == AnswersOld(q.op) /\ Resume(q)

\* the record a payload describes, under a given id
RecordOf(b, id) == [b EXCEPT !.car_id = id]

\* a row with the fields a body supplies replaced by the body's values
Merged(row, b) ==
    [f \in DOMAIN row |-> IF f \in Fields /\ b[f] # Undef THEN b[f] ELSE row[f]]

\* the step rejects the request: 400 with an errors list, nothing stored,
\* nothing left to run
Rejected ==
    /\ lastResp'.status = 400
    /\ lastResp'.shape = "errors"
    /\ lastResp'.errors # {}
    /\ answered' = answered + 1
    /\ UNCHANGED <<cars, issued, pending>>

-----------------------------------------------------------------------------
(* C1: a POST /cars or PUT /cars/:car_id whose body fails a field-level    *)
(* check of the data model is answered 400 with an errors list, and the    *)
(* table is the same before and after: no storage call is made.            *)
C1_InvalidBodyRejected ==
    [][/\ (AnswersNew("POST") /\ Val(lastResp'.req) \notin ValidPosts) => Rejected
       /\ (AnswersNew("PUT") /\ Val(lastResp'.req) \notin ValidPuts) => Rejected
       /\ \A q \in BagToSet(pending') :
            (q.op = "PUT" /\ Suspends(q)) => Val(q.body) \in ValidPuts]_vars

C1_Witness ==
    /\ lastResp.op = "POST"
    /\ lastResp.status = 400
    /\ lastResp.errors = {"make"}
    /\ Count(cars) = 1

(* C2: a POST /cars whose payload the data model accepts is answered 201,  *)
(* the returned record's fields equal the submitted ones, the table grows  *)
(* by exactly one record, and the returned car_id is non-empty and differs *)
(* from the car_id of every other record.  (A failure of the storage       *)
(* engine itself is answered 500 and is not the claim's case.)             *)
C2_ValidPostCreates ==
    [][(/\ AnswersNew("POST")
        /\ Val(lastResp'.req) \in ValidPosts
        /\ lastResp'.error # "engine") =>
            /\ lastResp'.status = 201
            /\ lastResp'.id # 0
            /\ lastResp'.id \notin DOMAIN cars
            /\ lastResp'.body = Some(RecordOf(Val(lastResp'.req), lastResp'.id))
            /\ DOMAIN cars' = DOMAIN cars \cup {lastResp'.id}
            /\ \A i \in DOMAIN cars : cars'[i] = cars[i]]_vars

(* C3: round trip.  While no PUT or DELETE has written the id since the    *)
(* POST that created it with payload P, a GET of that id answers 200 with  *)
(* P plus the car_id.                                                      *)
C3_RoundTrip ==
    (lastResp.op = "GET" /\ lastResp.status = 200 /\ lastResp.id \in DOMAIN created)
        => lastResp.body = Some(RecordOf(created[lastResp.id], lastResp.id))

(* C4: a valid PUT on an id that is in the table is answered 200 with the  *)
(* merged record and changes exactly the supplied fields: omitted fields,  *)
(* the car_id and every other record keep their values.  A PUT on an id    *)
(* that is not in the table is answered 404 and changes nothing.           *)
C4_PutMerges ==
    [][/\ \A q \in BagToSet(pending) :
            (/\ q.op = "PUT"
             /\ Resumes(q)
             /\ Val(q.body) \in ValidPuts
             /\ q.id \in DOMAIN cars
             /\ lastResp'.error # "engine") =>
                /\ lastResp'.status = 200
                /\ lastResp'.body = Some(Merged(cars[q.id], Val(q.body)))
                /\ DOMAIN cars' = DOMAIN cars
                /\ cars' = [cars EXCEPT ![q.id] = Merged(cars[q.id], Val(q.body))]
       /\ (/\ AnswersNew("PUT")
           /\ Val(lastResp'.req) \in ValidPuts
           /\ lastResp'.id \notin DOMAIN cars
           /\ lastResp'.error # "engine") =>
                /\ lastResp'.status = 404
                /\ UNCHANGED <<cars, pending>>
       /\ \A q \in BagToSet(pending') :
            (q.op = "PUT" /\ Suspends(q)) => q.id \in DOMAIN cars]_vars


(* C5: a DELETE on an id that is in the table is answered 204 and removes  *)
(* exactly that record, the others keep their values; from then on a GET   *)
(* of that id is answered 404 with a message.  A DELETE on an id that is   *)
(* not in the table is answered 404 and leaves the table as it is.  (A     *)
(* storage call that throws is answered 500 instead, with the table as it  *)
(* is.)                                                                    *)
C5_DeleteRemoves ==
    [][/\ \A q \in BagToSet(pending) :
            (q.op = "DELETE" /\ Resumes(q)) =>
                /\ lastResp'.id = q.id
                /\ \/ /\ lastResp'.status = 204
                      /\ DOMAIN cars' = DOMAIN cars \ {q.id}
                      /\ \A i \in DOMAIN cars' : cars'[i] = cars[i]
                   \/ lastResp'.status = 500 /\ cars' = cars
       /\ \A q \in BagToSet(pending') :
            (q.op = "DELETE" /\ Suspends(q)) => (q.id \in DOMAIN cars /\ cars' = cars)
       /\ AnswersNew("DELETE") =>
            /\ UNCHANGED <<cars, pending>>
            /\ lastResp'.shape = "message"
            /\ IF lastResp'.id \in DOMAIN cars
               THEN lastResp'.status = 500
               ELSE lastResp'.status \in {404, 500}
       /\ (AnswersNew("GET") /\ lastResp'.id \in deleted) =>
            /\ lastResp'.status \in {404, 500}
            /\ lastResp'.shape = "message"]_vars

C5_Witness ==
    /\ lastResp.op = "GET"
    /\ lastResp.status = 404
    /\ lastResp.shape = "message"
    /\ lastResp.id \in deleted
    /\ Count(cars) = 1

\* a body whose fields other than year pass every check of the service
OtherFieldsPass(b) ==
    /\ \A f \in Fields \ {"year"} : PutFieldOK(f, b[f])
    /\ \A f \in Fields \ {"year"} :
          b[f] # Undef => ModelFieldOK(f, Sanitized(BodyToDate(b), 0)[f])

YearEdgePosts ==
    {b \in PostBodies : /\ OtherFieldsPass(b)
                        /\ \A f \in {"user_id", "make", "model", "year"} : b[f] # Undef}
YearEdgePuts == {b \in PutBodies : OtherFieldsPass(b) /\ b.year # Undef}

\* on every year of the model the two checks give the same answer
YearChecksAgree ==
    \A b \in PostBodies \cup PutBodies :
        b.year # Undef => (YearIsInt(b.year) <=> ModelYearOK(Val(b.year)))

YearInRange(b) == Val(b.year) >= 1900 /\ Val(b.year) <= CurrentYear + 1

(* C6: year boundary.  A POST /cars, or a PUT on an id that is in the      *)
(* table, whose other fields pass every check is accepted (201, 200) when  *)
(* its year is 1900 or current_year + 1 and is rejected with 400 and no    *)
(* stored change when its year is 1899 or current_year + 2; the request    *)
(* check and the model check of year accept the same years.                *)
C6_YearBoundary ==
    [][/\ (/\ AnswersNew("POST")
           /\ Val(lastResp'.req) \in YearEdgePosts
           /\ lastResp'.error # "engine") =>
                IF YearInRange(Val(lastResp'.req))
                THEN /\ lastResp'.status = 201
                     /\ Val(lastResp'.body).year = Val(lastResp'.req).year
                     /\ cars'[lastResp'.id].year = Val(lastResp'.req).year
                ELSE Rejected /\ "year" \in lastResp'.errors
       /\ (/\ AnswersNew("PUT")
           /\ Val(lastResp'.req) \in YearEdgePuts
           /\ lastResp'.error # "engine") =>
                IF YearInRange(Val(lastResp'.req))
                THEN lastResp'.status = 404 /\ lastResp'.id \notin DOMAIN cars
                ELSE Rejected /\ "year" \in lastResp'.errors
       /\ \A q \in BagToSet(pending') :
            (q.op = "PUT" /\ Suspends(q) /\ Val(q.body).year # Undef) =>
                YearInRange(Val(q.body))
       /\ \A q \in BagToSet(pending) :
            (/\ q.op = "PUT"
             /\ Resumes(q)
             /\ Val(q.body) \in YearEdgePuts
             /\ lastResp'.error # "engine") =>
                /\ lastResp'.status = 200
                /\ Val(lastResp'.body).year = Val(q.body).year
                /\ q.id \in DOMAIN cars => cars'[q.id].year = Val(q.body).year
       /\ YearChecksAgree]_vars

C6_Witness ==
    /\ lastResp.op = "PUT"
    /\ lastResp.status = 200
    /\ Val(lastResp.body).year = Some(1900)
    /\ \E i \in DOMAIN cars : cars[i].year = Some(CurrentYear + 1)
    /\ \E i \in DOMAIN cars : cars[i].year = Some(1900)

(* C7: startup seeding.  When the service starts with an empty table and   *)
(* its storage calls do not fail, the table holds exactly one record, the  *)
(* example record, once the startup routine has finished; when the table   *)
(* is not empty at startup, the routine adds and removes nothing.          *)
C7_StartupSeeds ==
    (initPc \in {"done", "caught_validation"} /\ served = 0) =>
        IF startedEmpty
        THEN seeded = 1 /\ Count(cars) = 1
        ELSE seeded = 0 /\ cars = InsertRow(<<>>, OldRow)

(* C8: every request receives exactly one response; a storage call that    *)
(* throws is answered 500 with a message, ends the request (no retry) and  *)
(* leaves the table as it was; the other error statuses are 404, for an id *)
(* that is not in the table, and 400, for a body that fails validation.    *)
C8_OneResponse ==
    [][/\ served' - answered' = BagCardinality(pending')
       /\ answered' \in {answered, answered + 1}
       /\ answered' # answered =>
            /\ lastResp'.status \in {200, 201, 204, 400, 404, 500}
            /\ lastResp'.status = 500 =>
                 /\ lastResp'.shape = "message"
                 /\ cars' = cars
                 /\ BagCardinality(pending') <= BagCardinality(pending)
            /\ lastResp'.status = 404 =>
                 /\ lastResp'.shape = "message"
                 /\ lastResp'.id \notin DOMAIN cars
                 /\ UNCHANGED <<cars, pending>>
            /\ lastResp'.status = 400 =>
                 /\ lastResp'.errors # {}
                 /\ UNCHANGED <<cars, pending>>]_vars

C8_Witness ==
    /\ lastResp.op = "PUT"
    /\ lastResp.status = 500
    /\ lastResp.error = "validation"
    /\ served = 2
    /\ answered = 2
    /\ Count(cars) = 2

(* C9: whenever a PUT is answered 200, a record with that car_id is in the *)
(* table at the moment of the response and its fields equal the returned   *)
(* body (so a PUT whose target a concurrent DELETE removed between the     *)
(* PUT's lookup and its write is not answered 200).                        *)
C9_PutAnswersStoredRecord ==
    (lastResp.op = "PUT" /\ lastResp.status = 200) =>
        /\ lastResp.id \in DOMAIN cars
        /\ lastResp.body = Some(cars[lastResp.id])

(* C10: a deleted car never reappears: once a DELETE has answered 204 for  *)
(* an id, no record with that car_id is in the table, whatever PUT, DELETE *)
(* and POST requests run with it or after it.                              *)
C10_DeletedStaysDeleted == \A x \in deleted : x \notin DOMAIN cars

C10_Witness ==
    /\ lastResp.op = "PUT"
    /\ lastResp.status = 200
    /\ lastResp.id \in deleted
    /\ Count(cars) = 1

=============================================================================
